---- MODULE Spec2Model ----
(***************************************************************************)
(* JSONScanner staging cache: utils/TempFileManager.js (ephemeral session) *)
(* and utils/PersistentTempManager.js (persistent folder).                 *)
(*                                                                         *)
(* The disk is one map from paths to file bytes.  A source path is the     *)
(* sequence of its characters (getRelativePath works on characters); a     *)
(* path below the application temp directory is the sequence of its        *)
(* components, starting at the session directory.  Every write of the      *)
(* model goes to the path the code computes for it.                        *)
(***************************************************************************)
EXTENDS Integers, Sequences, FiniteSets, TLC

\* ---------------------------------------------------------------- bounds
MaxContent == 2     \* a source file holds one of the byte strings 1..MaxContent
MaxTime == 1        \* the owner's clock (modification times) runs 0..MaxTime
MaxArchives == 1    \* timestamped archive directories created at most
MaxSessions == 3    \* session directories created by other managers at most
MaxManagers == 4    \* session objects constructed in one process at most
MaxInflight == 2    \* copyToTemp calls awaiting their hash at once at most
MaxNameLen == 130   \* characters of the longest file name among the sample paths

\* ------------------------------------------------------- program constants
maxLength == 180    \* getRelativePath: longest separator-substituted name
hashPrefixLen == 8  \* getRelativePath: hash.substring(0, 8)

PartialBytes == 0   \* bytes of a copy that did not complete
Deleted == 0 - 1    \* the owner removed the file

Contents == 1..MaxContent

\* The source files of the external owner (absolute paths, one directory).
srcA == <<"/", "d", "/", "a">>
srcB == <<"/", "d", "/", "b">>
SrcPaths == {srcA, srcB}
PathOrder == <<srcA, srcB>>
srcDir == <<"/", "d">>

\* ------------------------------------------------------------ path helpers
\* the string of a sequence of strings, joined half by half
RECURSIVE Concat(_)
Concat(s) ==
  IF s = <<>> THEN ""
  ELSE IF Len(s) = 1 THEN s[1]
  ELSE LET half == Len(s) \div 2
       IN Concat(SubSeq(s, 1, half)) \o Concat(SubSeq(s, half + 1, Len(s)))

\* the position of the last "/" among the first i characters, 0 without one
LastSlash(p, i) ==
  LET slashes == {j \in 1..i : p[j] = "/"}
  IN IF slashes = {} THEN 0 ELSE CHOOSE j \in slashes : \A k \in slashes : k <= j

\* path.basename / path.dirname (posix) on a character sequence
basename(p) == SubSeq(p, LastSlash(p, Len(p)) + 1, Len(p))
dirname(p) ==
  LET k == LastSlash(p, Len(p))
  IN IF k = 0 THEN <<".">> ELSE IF k = 1 THEN <<"/">> ELSE SubSeq(p, 1, k - 1)

CharCode(c) ==
  CASE c = "/" -> 47 [] c = ":" -> 58 [] c = "\\" -> 92 [] c = "_" -> 95
    [] c = "a" -> 97 [] c = "b" -> 98 [] c = "d" -> 100 [] OTHER -> 120

HexDigits == <<"0", "1", "2", "3", "4", "5", "6", "7", "8", "9", "a", "b", "c", "d", "e", "f">>

\* 31^n, and the characters lo..hi of p folded into one number, both modulo
\* 2^15; Mix(p, i, acc) folds the characters from i on into acc, one after
\* another: acc becomes acc * 31 + CharCode + position
RECURSIVE Pow31(_)
Pow31(n) ==
  IF n = 0 THEN 1
  ELSE LET h == Pow31(n \div 2)
       IN IF n % 2 = 0 THEN (h * h) % 32768 ELSE (((h * h) % 32768) * 31) % 32768

RECURSIVE MixRange(_, _, _)
MixRange(p, lo, hi) ==
  IF lo > hi THEN 0
  ELSE IF lo = hi THEN (CharCode(p[lo]) + lo) % 32768
  ELSE LET mid == (lo + hi) \div 2
       IN (((MixRange(p, lo, mid) * Pow31(hi - mid)) % 32768) + MixRange(p, mid + 1, hi)) % 32768

Mix(p, i, acc) ==
  (((acc * Pow31(Len(p) - i + 1)) % 32768) + MixRange(p, i, Len(p))) % 32768

\* crypto.createHash("md5").update(absolutePath).digest("hex"): a digest of
\* the whole path, 32 hexadecimal digits.
md5hex(p) ==
  LET digest == Mix(p, 1, 7)
  IN [i \in 1..32 |-> HexDigits[((digest * (2 * i + 1) + i * i) % 16) + 1]]

\* the three .replace() calls of getRelativePath, applied in that order
safeChar(c) ==
  IF c = ":" THEN "_COLON_" ELSE IF c = "\\" THEN "_BACKSLASH_" ELSE IF c = "/" THEN "_SLASH_" ELSE c

safePathOf(p) == Concat([i \in 1..Len(p) |-> safeChar(p[i])])

\* getRelativePath taking the hashed form from maxLength characters on
getRelativePathAtLimit(absolutePath) ==
  LET safePath == safePathOf(absolutePath)
  IN IF Len(safePath) >= maxLength
     THEN Concat(SubSeq(md5hex(absolutePath), 1, hashPrefixLen)) \o "_"
            \o Concat(basename(dirname(absolutePath))) \o "_"
            \o Concat(basename(absolutePath))
     ELSE safePath

getRelativePath(absolutePath) ==
  LET safePath == safePathOf(absolutePath)
  IN IF Len(safePath) > maxLength
     THEN Concat(SubSeq(md5hex(absolutePath), 1, hashPrefixLen)) \o "_"
            \o Concat(basename(dirname(absolutePath))) \o "_"
            \o Concat(basename(absolutePath))
     ELSE safePath

\* ------------------------------------------------------- session layout
sessionId == "session_1"
sessionPath == <<sessionId>>
collectedJsonsPath == sessionPath \o <<"collected_jsons">>
fixedJsonsPath == sessionPath \o <<"fixed_jsons">>
resultsPath == sessionPath \o <<"results">>
inputFilesPath == sessionPath \o <<"input_files">>
archiveDir == <<"archived_results">>

\* readdirSync lists the entries of the session directory in name order
subdirs == <<collectedJsonsPath, fixedJsonsPath, inputFilesPath, resultsPath>>

getPathForType(fileType) ==
  CASE fileType = "collected_json" -> collectedJsonsPath
    [] fileType = "fixed_json" -> fixedJsonsPath
    [] fileType = "result" -> resultsPath
    [] OTHER -> inputFilesPath

IsUnder(dir, f) == Len(f) > Len(dir) /\ SubSeq(f, 1, Len(dir)) = dir
parentOf(f) == SubSeq(f, 1, Len(f) - 1)

\* fs.mkdirSync(dir, {recursive: true}): the directory and its ancestors
RECURSIVE mkdirSync(_, _)
mkdirSync(ds, dir) ==
  IF dir = <<>> THEN ds ELSE mkdirSync(ds \cup {dir}, parentOf(dir))

\* calculateFileHash: MD5 of the bytes of a file
calculateFileHash(bytes) == (7 * bytes + 3) % 16

\* fs.renameSync in the place of fs.copyFileSync: the source file is moved
copyFileSyncMoves(d, from, to) == [f \in ((DOMAIN d) \cup {to}) \ {from} |->
                                     IF f = to THEN d[from] ELSE d[f]]

\* fs.copyFileSync(from, to) on the disk map
copyFileSync(d, from, to) == (to :> d[from]) @@ d

\* fs.writeFileSync / fs.unlinkSync on the disk map
writeFileSync(d, to, bytes) == (to :> bytes) @@ d
unlinkAll(d, gone) == [f \in (DOMAIN d) \ gone |-> d[f]]

EmptyMap == [x \in {} |-> 0]

SeqRange(q) == {q[i] : i \in 1..Len(q)}

FilesUnder(d, dir) == {f \in DOMAIN d : IsUnder(dir, f)}

VARIABLES
  disk,         \* path -> bytes, for every file that exists
  dirs,         \* the directories that exist below the application directory
  srcMtime,     \* source path -> modification time of the file
  fileHashes,   \* source path -> [hash, mtime, tempPath, originalPath]
  pathMapping,  \* temp path -> source path
  inflight,     \* the copyToTemp call that awaits its hash: {} or {call}
  changes,      \* the report of the last detectChanges that returned: {} or {report}
  archives,     \* number of archive directories created
  owner,        \* source path -> bytes its owner last wrote, or Deleted
  untouched,    \* source paths staged successfully and not touched since
  lastOp,       \* the last operation, its outcome and the byte copies it made
  aged,         \* session directories last modified more than 24 hours ago
  sessionsMade, \* number of session directories other managers have created
  managers,     \* the session objects constructed so far, in construction order
  translation,  \* the getRelativePath call on a sample path: [path, name]
  scannedPaths, \* Scanner.scannedPaths: the scan paths scanned before
  srcDirs       \* the directories of the owner that exist

vars == <<disk, dirs, srcMtime, fileHashes, pathMapping, inflight, changes,
          archives, owner, untouched, lastOp, aged, sessionsMade,
          managers, translation, scannedPaths, srcDirs>>

\* what the operations of one session on its files leave alone
otherVars == <<managers, translation, scannedPaths, srcDirs>>

sessionVars == <<dirs, fileHashes, pathMapping, inflight, changes, archives,
                 aged, sessionsMade, managers, translation, scannedPaths, srcDirs>>

\* the entries of a directory; creating or removing one of them sets the
\* modification time of the directory to now
entries(ds, dir) == {dd \in ds : dd # <<>> /\ parentOf(dd) = dir}
agedAfter(ds2) == {s \in aged : s \in ds2 /\ entries(ds2, s) = entries(dirs, s)}

\* ensureSessionDirectory: the session directory and its four subdirectories
ensureSessionDirectory(ds) ==
  ds \cup {sessionPath, collectedJsonsPath, fixedJsonsPath, resultsPath, inputFilesPath}

\* the session object of this model: new TempFileManager("JSONScanner")
thisManager == [kind |-> "TempFileManager", sessionId |-> sessionId,
                sessionPath |-> sessionPath, timestamp |-> 0]

\* constructor: empty maps, directories created; the owner's files exist
Init ==
  /\ disk = [p \in SrcPaths |-> 1]
  /\ dirs = ensureSessionDirectory({})
  /\ srcMtime = [p \in SrcPaths |-> 0]
  /\ fileHashes = EmptyMap
  /\ pathMapping = EmptyMap
  /\ inflight = {}
  /\ changes = {}
  /\ archives = 0
  /\ owner = [p \in SrcPaths |-> disk[p]]
  /\ untouched = {}
  /\ lastOp = [op |-> "constructor", ok |-> TRUE, copied |-> 0, again |-> FALSE, archive |-> ""]
  /\ aged = {}
  /\ sessionsMade = 0
  /\ managers = <<thisManager>>
  /\ translation = [path |-> srcA, name |-> ""]
  /\ scannedPaths = {}
  /\ srcDirs = {srcDir}

\* ------------------------------------------------ the external owner
\* the time of the last change the owner made; a later change is stamped later
RECURSIVE MaxOf(_)
MaxOf(S) == IF S = {} THEN 0 ELSE LET x == CHOOSE y \in S : TRUE
                                      m == MaxOf(S \ {x})
                                  IN IF x > m THEN x ELSE m
clock == MaxOf({srcMtime[p] : p \in SrcPaths})

OwnerWrite(p, c) ==
  /\ p \in DOMAIN disk
  /\ c # disk[p]
  /\ clock < MaxTime
  /\ disk' = [disk EXCEPT ![p] = c]
  /\ srcMtime' = [srcMtime EXCEPT ![p] = clock + 1]
  /\ owner' = [owner EXCEPT ![p] = c]
  /\ untouched' = untouched \ {p}
  /\ lastOp' = [op |-> "owner", ok |-> TRUE, copied |-> 0, again |-> FALSE, archive |-> ""]
  /\ UNCHANGED sessionVars

OwnerTouch(p) ==
  /\ p \in DOMAIN disk
  /\ clock < MaxTime
  /\ srcMtime' = [srcMtime EXCEPT ![p] = clock + 1]
  /\ untouched' = untouched \ {p}
  /\ lastOp' = [op |-> "owner", ok |-> TRUE, copied |-> 0, again |-> FALSE, archive |-> ""]
  /\ UNCHANGED <<disk, owner>>
  /\ UNCHANGED sessionVars

OwnerDelete(p) ==
  /\ p \in DOMAIN disk
  /\ disk' = unlinkAll(disk, {p})
  /\ owner' = [owner EXCEPT ![p] = Deleted]
  /\ untouched' = untouched \ {p}
  /\ lastOp' = [op |-> "owner", ok |-> TRUE, copied |-> 0, again |-> FALSE, archive |-> ""]
  /\ UNCHANGED srcMtime
  /\ UNCHANGED sessionVars

OwnerCreate(p, c) ==
  /\ p \notin DOMAIN disk
  /\ clock < MaxTime
  /\ disk' = (p :> c) @@ disk
  /\ srcMtime' = [srcMtime EXCEPT ![p] = clock + 1]
  /\ owner' = [owner EXCEPT ![p] = c]
  /\ untouched' = untouched \ {p}
  /\ lastOp' = [op |-> "owner", ok |-> TRUE, copied |-> 0, again |-> FALSE, archive |-> ""]
  /\ UNCHANGED sessionVars

\* the owner creates a file in a directory that exists
OwnerCreateInDirectory(p, c) ==
  /\ dirname(p) \in srcDirs
  /\ OwnerCreate(p, c)

\* ------------------------------------------------ staging one file
StageTypes == {"input"}

\* a target path that numbers the staged name by the files tracked so far
tempPathForNumbered(sourcePath, fileType) ==
  getPathForType(fileType)
    \o <<getRelativePath(sourcePath) \o "_" \o ToString(Cardinality(DOMAIN fileHashes))>>

\* the target path of copyToTemp: the directory of the file type and the
\* translated name of the source path
tempPathFor(sourcePath, fileType) ==
  getPathForType(fileType) \o <<getRelativePath(sourcePath)>>

\* how the I/O of one copyFileToTemp call can end: the hash stream fails, the
\* copy fails before the destination is opened, the copy fails part-way and
\* the destination is left truncated or is removed again, or all succeeds
CopyOutcomes == {"ok", "hashError", "copyError", "copyPartial", "copyRemoved"}

\* copyFileToTemp with fileHashes.set and pathMapping.set moved before the copy
copyFileToTempRegistersFirst(st, sourcePath, tempPath, sourceHash, mtime, outcome) ==
  IF sourcePath \notin DOMAIN st.disk \/ outcome \in {"hashError"}
  THEN [st EXCEPT !.ok = FALSE]
  ELSE LET reg == [st EXCEPT
                    !.fileHashes = (sourcePath :> [hash |-> sourceHash, mtime |-> mtime,
                                                  tempPath |-> tempPath,
                                                  originalPath |-> sourcePath]) @@ st.fileHashes,
                    !.pathMapping = (tempPath :> sourcePath) @@ st.pathMapping]
       IN IF outcome = "copyError" THEN [reg EXCEPT !.ok = FALSE]
          ELSE IF outcome = "copyPartial"
          THEN [reg EXCEPT !.ok = FALSE, !.disk = writeFileSync(st.disk, tempPath, PartialBytes)]
          ELSE IF outcome = "copyRemoved"
          THEN [reg EXCEPT !.ok = FALSE, !.disk = unlinkAll(st.disk, {tempPath})]
          ELSE [reg EXCEPT !.disk = copyFileSync(st.disk, sourcePath, tempPath),
                           !.copies = st.copies + 1]

\* copyFileToTemp after its directory exists: st is the state it works on,
\* sourceHash the value calculateFileHash resolved to.  statSync throws when
\* the source is gone; fileHashes.set and pathMapping.set follow the copy.
copyFileToTemp(st, sourcePath, tempPath, sourceHash, mtime, outcome) ==
  IF sourcePath \notin DOMAIN st.disk \/ outcome \in {"hashError", "copyError"}
  THEN [st EXCEPT !.ok = FALSE]
  ELSE IF outcome = "copyPartial"
  THEN [st EXCEPT !.ok = FALSE, !.disk = writeFileSync(st.disk, tempPath, PartialBytes)]
  ELSE IF outcome = "copyRemoved"
  THEN [st EXCEPT !.ok = FALSE, !.disk = unlinkAll(st.disk, {tempPath})]
  ELSE [ok |-> TRUE,
        disk |-> copyFileSync(st.disk, sourcePath, tempPath),
        fileHashes |-> (sourcePath :> [hash |-> sourceHash, mtime |-> mtime,
                                      tempPath |-> tempPath,
                                      originalPath |-> sourcePath]) @@ st.fileHashes,
        pathMapping |-> (tempPath :> sourcePath) @@ st.pathMapping,
        copies |-> st.copies + 1]

curState ==
  [ok |-> TRUE, disk |-> disk, fileHashes |-> fileHashes,
   pathMapping |-> pathMapping, copies |-> 0]

\* p was staged to tempPath, is untouched since, and the staged file still
\* holds the bytes of the source
StagedIntact(p, tempPath) ==
  /\ p \in untouched
  /\ p \in DOMAIN fileHashes
  /\ fileHashes[p].tempPath = tempPath
  /\ tempPath \in DOMAIN disk
  /\ p \in DOMAIN disk
  /\ disk[tempPath] = disk[p]

\* copyToTemp up to the await of calculateFileHash: statSync of the source,
\* the target path, mkdirSync of its directory, the hash stream is opened.
\* Nothing in the method looks at the calls that are already in flight.
CopyToTempStart(p, fileType, mkdirFails) ==
  /\ LET tempPath == tempPathFor(p, fileType)
         tempDir == parentOf(tempPath)
         thrown == p \notin DOMAIN disk \/ (tempDir \notin dirs /\ mkdirFails)
     IN /\ (tempDir \in dirs => ~mkdirFails)
        /\ inflight' = IF thrown THEN inflight
                       ELSE inflight \cup {[path |-> p, tempPath |-> tempPath,
                                            hash |-> calculateFileHash(disk[p]),
                                            restage |-> StagedIntact(p, tempPath)]}
        /\ dirs' = IF thrown THEN dirs ELSE mkdirSync(dirs, tempDir)
        /\ lastOp' = [op |-> IF thrown THEN "copyToTemp" ELSE "copyToTemp.await",
                      ok |-> ~thrown, copied |-> 0, again |-> FALSE, archive |-> ""]
  /\ changes' = {}
  /\ aged' = agedAfter(dirs')
  /\ UNCHANGED otherVars
  /\ UNCHANGED <<disk, srcMtime, fileHashes, pathMapping, archives, owner, untouched,
                 sessionsMade>>

\* a caller that awaits every copyToTemp before it makes the next call
CopyToTempBegin(p, fileType, mkdirFails) ==
  /\ inflight = {}
  /\ CopyToTempStart(p, fileType, mkdirFails)

\* copyFileToTemp of the call c from the resolved hash on: statSync,
\* copyFileSync, register
CopyToTempResume(c, outcome) ==
  /\ c \in inflight
  /\ LET mt == srcMtime[c.path]
         st == copyFileToTemp(curState, c.path, c.tempPath, c.hash, mt, outcome)
     IN /\ (parentOf(c.tempPath) \notin dirs => outcome \in {"hashError", "copyError"})
        /\ disk' = st.disk
        /\ fileHashes' = st.fileHashes
        /\ pathMapping' = st.pathMapping
        /\ untouched' = IF st.ok THEN untouched \cup {c.path} ELSE untouched
        /\ lastOp' = [op |-> "copyToTemp", ok |-> st.ok, copied |-> st.copies,
                      again |-> c.restage /\ c.path \in untouched, archive |-> ""]
  /\ inflight' = inflight \ {c}
  /\ UNCHANGED otherVars
  /\ UNCHANGED <<dirs, srcMtime, changes, archives, owner, aged, sessionsMade>>

CopyToTempFinish(outcome) ==
  /\ inflight # {}
  /\ CopyToTempResume(CHOOSE x \in inflight : TRUE, outcome)

\* callers that do not await: Scanner.scanWithPathResolution starts
\* performScan and returns, so the copyToTemp calls of two scans overlap
CopyToTempConcurrently(p, fileType, mkdirFails) ==
  /\ Cardinality(inflight) < MaxInflight
  /\ CopyToTempStart(p, fileType, mkdirFails)

\* ------------------------------------------------ path queries
\* what a query answers when it finds nothing
null == <<>>

\* getTempPath: the staged path recorded for the source
getTempPath(originalPath) ==
  IF originalPath \in DOMAIN fileHashes THEN fileHashes[originalPath].tempPath ELSE null

\* getOriginalPath: the direct mapping first, then a search of fileHashes
\* for an entry with this staged path
getOriginalPath(tempPath) ==
  IF tempPath \in DOMAIN pathMapping THEN pathMapping[tempPath]
  ELSE LET found == {o \in DOMAIN fileHashes : fileHashes[o].tempPath = tempPath}
       IN IF found = {} THEN null ELSE CHOOSE o \in found : TRUE

\* ------------------------------------------------ change detection
order(S) == SelectSeq(PathOrder, LAMBDA p : p \in S)

\* the existence test without its negation
isDeletedNoNegation(sourcePath, d) == sourcePath \in DOMAIN d

\* the new-file branch reached without the continue of the deleted branch
isNewNoContinue(sourcePath, d, fh) == sourcePath \notin DOMAIN fh

\* the new-file branch with its test inverted
isNewInverted(sourcePath, d, fh) == sourcePath \in DOMAIN d /\ sourcePath \in DOMAIN fh

\* a changed modification time taken as proof of a change
isChangedMtimeOnly(sourcePath, d, fh, mt) ==
  /\ sourcePath \in DOMAIN d
  /\ sourcePath \in DOMAIN fh
  /\ mt[sourcePath] # fh[sourcePath].mtime

\* the three branches of the loop of detectChanges: a path reaches a branch
\* when no earlier branch took it (each ends with continue)
isDeleted(sourcePath, d) == sourcePath \notin DOMAIN d

isNew(sourcePath, d, fh) == sourcePath \in DOMAIN d /\ sourcePath \notin DOMAIN fh

isChanged(sourcePath, d, fh, mt) ==
  /\ sourcePath \in DOMAIN d
  /\ sourcePath \in DOMAIN fh
  /\ mt[sourcePath] # fh[sourcePath].mtime
  /\ calculateFileHash(d[sourcePath]) # fh[sourcePath].hash

changeInfo(sourcePath, d, fh, mt) ==
  [path |-> sourcePath, oldHash |-> fh[sourcePath].hash,
   newHash |-> calculateFileHash(d[sourcePath]),
   oldMtime |-> fh[sourcePath].mtime, newMtime |-> mt[sourcePath]]

\* sourcePaths || Array.from(this.fileHashes.keys())
pathsToCheck(arg, fh) == IF arg.given THEN order(arg.paths) ELSE order(DOMAIN fh)

\* the report detectChanges returns when no statSync or hash stream throws;
\* checked records the paths the call looked at (not a field of the code)
detectChanges(arg, d, fh, mt) ==
  LET todo == pathsToCheck(arg, fh)
      deleted == SelectSeq(todo, LAMBDA p : isDeleted(p, d))
      new == SelectSeq(todo, LAMBDA p : isNew(p, d, fh))
      changed == SelectSeq(todo, LAMBDA p : isChanged(p, d, fh, mt))
  IN [hasChanges |-> Len(changed) + Len(new) + Len(deleted) > 0,
      changedFiles |-> [i \in 1..Len(changed) |-> changeInfo(changed[i], d, fh, mt)],
      newFiles |-> new,
      deletedFiles |-> deleted,
      checked |-> {todo[i] : i \in 1..Len(todo)}]

\* PersistentTempManager.detectChanges: the same object on every call
persistentDetectChanges ==
  [hasChanges |-> FALSE,
   summary |-> "Changes detected individually per JSON file during copy operations",
   changes |-> <<>>]

\* the paths for which detectChanges reaches fs.statSync
statted(arg, d, fh) ==
  {p \in SrcPaths : \E i \in 1..Len(pathsToCheck(arg, fh)) :
      pathsToCheck(arg, fh)[i] = p /\ p \in DOMAIN d /\ p \in DOMAIN fh}

DetectArgs == {[given |-> FALSE, paths |-> {}]} \cup [given : {TRUE}, paths : SUBSET SrcPaths]

\* detectChanges that stores the new modification time of every file it
\* found touched but unchanged
DetectChangesRefreshing(arg, bad) ==
  /\ inflight = {}
  /\ bad \subseteq statted(arg, disk, fileHashes)
  /\ changes' = IF bad = {} THEN {detectChanges(arg, disk, fileHashes, srcMtime)}
                ELSE changes
  /\ fileHashes' = [p \in DOMAIN fileHashes |->
                      IF p \in DOMAIN disk /\ calculateFileHash(disk[p]) = fileHashes[p].hash
                      THEN [fileHashes[p] EXCEPT !.mtime = srcMtime[p]]
                      ELSE fileHashes[p]]
  /\ lastOp' = [op |-> IF arg.given THEN "detectChanges(paths)" ELSE "detectChanges",
                ok |-> bad = {}, copied |-> 0, again |-> FALSE, archive |-> ""]
  /\ UNCHANGED otherVars
  /\ UNCHANGED <<disk, dirs, srcMtime, pathMapping, inflight, archives, owner, untouched,
                 aged, sessionsMade>>

\* detectChanges(sourcePaths); bad: the paths whose statSync or hash stream
\* throws, which ends the call in the catch block with nothing returned
DetectChanges(arg, bad) ==
  /\ inflight = {}
  /\ bad \subseteq statted(arg, disk, fileHashes)
  /\ changes' = IF bad = {} THEN {detectChanges(arg, disk, fileHashes, srcMtime)}
                ELSE changes
  /\ lastOp' = [op |-> IF arg.given THEN "detectChanges(paths)" ELSE "detectChanges",
                ok |-> bad = {}, copied |-> 0, again |-> FALSE, archive |-> ""]
  /\ UNCHANGED otherVars
  /\ UNCHANGED <<disk, dirs, srcMtime, fileHashes, pathMapping, inflight,
                 archives, owner, untouched, aged, sessionsMade>>

\* ------------------------------------------------ applying a report
hashOf(d, p) == IF p \in DOMAIN d THEN calculateFileHash(d[p]) ELSE 0

\* the two loops of updateChangedFiles: copyToTemp(path) for every changed
\* and then every new file; the first call that throws ends the update.
\* The outcome of the k-th copy is o, the others succeed.
RECURSIVE updateLoop(_, _, _, _, _, _)
updateLoop(st, queue, mt, k, o, i) ==
  IF queue = <<>> THEN st
  ELSE LET p == Head(queue)
           st2 == copyFileToTemp(st, p, tempPathFor(p, "input"), hashOf(st.disk, p),
                                 mt[p], IF i = k THEN o ELSE "ok")
       IN IF st2.ok THEN updateLoop(st2, Tail(queue), mt, k, o, i + 1) ELSE st2

updateQueue(report) ==
  [i \in 1..Len(report.changedFiles) |-> report.changedFiles[i].path] \o report.newFiles

UpdateChangedFiles(k, o) ==
  /\ inflight = {}
  /\ changes # {}
  /\ LET report == CHOOSE r \in changes : TRUE
         queue == updateQueue(report)
         st == updateLoop(curState, queue, srcMtime, k, o, 1)
     IN /\ k \in 0..Len(queue)
        /\ (k = 0) = (o = "ok")
        /\ disk' = st.disk
        /\ fileHashes' = st.fileHashes
        /\ pathMapping' = st.pathMapping
        /\ dirs' = IF queue # <<>> /\ queue[1] \in DOMAIN disk
                   THEN mkdirSync(dirs, inputFilesPath) ELSE dirs
        /\ untouched' = untouched \cup {queue[i] : i \in 1..st.copies}
        /\ lastOp' = [op |-> "updateChangedFiles", ok |-> st.ok, copied |-> st.copies,
                      again |-> lastOp.op = "updateChangedFiles" /\ lastOp.ok,
                      archive |-> ""]
  /\ aged' = agedAfter(dirs')
  /\ UNCHANGED otherVars
  /\ UNCHANGED <<srcMtime, inflight, changes, archives, owner, sessionsMade>>

\* ------------------------------------------------ staging a directory

\* fs.readdirSync(sourcePath): the files of the directory, in name order
readdirSync(d, dir) == order({p \in SrcPaths : p \in DOMAIN d /\ dirname(p) = dir})

\* path.join(tempPath, item)
tempItemFor(tempPath, sourceItem) == tempPath \o <<Concat(basename(sourceItem))>>

\* the loop of copyDirectoryToTemp: statSync and copyFileToTemp for every
\* item; the first item that throws ends the loop, the error is logged and
\* thrown again.  The outcome of the k-th item is o, the others succeed.
RECURSIVE copyDirectoryLoop(_, _, _, _, _, _, _)
copyDirectoryLoop(st, items, tempPath, mt, k, o, i) ==
  IF items = <<>> THEN st
  ELSE LET sourceItem == Head(items)
           st2 == copyFileToTemp(st, sourceItem, tempItemFor(tempPath, sourceItem),
                                 hashOf(st.disk, sourceItem), mt[sourceItem],
                                 IF i = k THEN o ELSE "ok")
       IN IF st2.ok THEN copyDirectoryLoop(st2, Tail(items), tempPath, mt, k, o, i + 1)
          ELSE st2

\* copyToTemp(sourcePath) of a directory: copyDirectoryToTemp(sourcePath,
\* tempPath) creates tempPath and stages the items one after the other
CopyDirectoryToTemp(k, o) ==
  /\ inflight = {}
  /\ LET tempPath == tempPathFor(srcDir, "input")
         items == readdirSync(disk, srcDir)
         st == copyDirectoryLoop(curState, items, tempPath, srcMtime, k, o, 1)
     IN /\ k \in 0..Len(items)
        /\ (k = 0) = (o = "ok")
        /\ disk' = st.disk
        /\ fileHashes' = st.fileHashes
        /\ pathMapping' = st.pathMapping
        /\ dirs' = mkdirSync(dirs, tempPath)
        /\ untouched' = untouched \cup {items[i] : i \in 1..st.copies}
        /\ lastOp' = [op |-> "copyToTemp(dir)", ok |-> st.ok, copied |-> st.copies,
                      again |-> FALSE, archive |-> ""]
  /\ changes' = {}
  /\ aged' = agedAfter(dirs')
  /\ UNCHANGED otherVars
  /\ UNCHANGED <<srcMtime, inflight, archives, owner, sessionsMade>>

\* ------------------------------------------------ derived artifacts
ArtifactNames == {"r.json"}
ArtifactContents == {2}   \* JSON.stringify(analysisResults, null, 2)
SaveTypes == {"result", "fixed_json"}

\* saveToTemp that records the file it wrote in pathMapping
SaveToTempTracking(filename, content, fileType) ==
  /\ inflight = {}
  /\ LET targetDir == getPathForType(fileType)
         filePath == targetDir \o <<filename>>
     IN /\ disk' = IF targetDir \in dirs THEN writeFileSync(disk, filePath, content)
                   ELSE disk
        /\ pathMapping' = IF targetDir \in dirs THEN (filePath :> filePath) @@ pathMapping
                          ELSE pathMapping
        /\ lastOp' = [op |-> "saveToTemp", ok |-> targetDir \in dirs, copied |-> 0,
                      again |-> FALSE, archive |-> ""]
  /\ changes' = {}
  /\ UNCHANGED otherVars
  /\ UNCHANGED <<dirs, srcMtime, fileHashes, inflight, archives,
                 owner, untouched, aged, sessionsMade>>

\* saveToTemp(filename, content, fileType): writeFileSync throws when the
\* directory of the category is gone
SaveToTemp(filename, content, fileType) ==
  /\ inflight = {}
  /\ LET targetDir == getPathForType(fileType)
         filePath == targetDir \o <<filename>>
     IN /\ disk' = IF targetDir \in dirs THEN writeFileSync(disk, filePath, content)
                   ELSE disk
        /\ lastOp' = [op |-> "saveToTemp", ok |-> targetDir \in dirs, copied |-> 0, again |-> FALSE, archive |-> ""]
  /\ changes' = {}
  /\ UNCHANGED otherVars
  /\ UNCHANGED <<dirs, srcMtime, fileHashes, pathMapping, inflight, archives,
                 owner, untouched, aged, sessionsMade>>

\* ------------------------------------------------ teardown
RECURSIVE Stamp(_)
Stamp(n) == IF n = 0 THEN "" ELSE "t" \o Stamp(n - 1)

\* `${this.sessionId}_${timestamp}` of the n-th archive
sessionArchiveDir(n) == archiveDir \o <<sessionId \o "_" \o Stamp(n)>>

ArchiveOutcomes == {"ok", "mkdirError", "copyError"}

\* archiveResults: copies every file of results into a new timestamped
\* directory; whatever fails is caught and logged inside archiveResults.
\* kept: the result files copied before a copy threw.
archiveResults(st, n, outcome, kept) ==
  IF resultsPath \notin st.dirs \/ outcome = "mkdirError" THEN st
  ELSE LET target == sessionArchiveDir(n)
           files == IF outcome = "ok" THEN FilesUnder(st.disk, resultsPath) ELSE kept
       IN [st EXCEPT !.dirs = mkdirSync(st.dirs, target),
                     !.disk = [f \in {target \o <<g[Len(g)]>> : g \in files}
                                 |-> st.disk[resultsPath \o <<f[Len(f)]>>]] @@ st.disk]

\* removeDirectory(sessionPath): the subdirectories in readdir order, in each
\* its files, then the directory itself.  failAt: the file whose unlinkSync
\* throws (<<>>: none); gone: the files of its directory unlinked before it.
removeDirectory(st, failAt, gone) ==
  IF failAt = <<>>
  THEN [st EXCEPT !.ok = TRUE,
                  !.disk = unlinkAll(st.disk, FilesUnder(st.disk, sessionPath)),
                  !.dirs = {dd \in st.dirs : dd # sessionPath /\ ~IsUnder(sessionPath, dd)}]
  ELSE LET idx == CHOOSE i \in 1..Len(subdirs) : subdirs[i] = parentOf(failAt)
           before == {subdirs[i] : i \in 1..(idx - 1)}
       IN [st EXCEPT !.ok = FALSE,
                     !.disk = unlinkAll(st.disk,
                                {f \in FilesUnder(st.disk, sessionPath) : parentOf(f) \in before}
                                  \cup gone),
                     !.dirs = st.dirs \ before]

\* cleanup without the fs.existsSync tests: readdirSync throws on a session
\* directory that is gone, and the catch block leaves the maps as they are
CleanupWithNoExistsCheck(preserveResults, outcome, kept, failAt, gone) ==
  LET st0 == [ok |-> TRUE, disk |-> disk, dirs |-> dirs]
      archiving == preserveResults /\ sessionPath \in dirs
      creating == archiving /\ resultsPath \in dirs /\ outcome # "mkdirError"
      st1 == IF archiving THEN archiveResults(st0, archives + 1, outcome, kept) ELSE st0
      st2 == IF sessionPath \in dirs THEN removeDirectory(st1, failAt, gone)
             ELSE [st0 EXCEPT !.ok = FALSE]
  IN /\ (creating => archives < MaxArchives)
     /\ disk' = st2.disk
     /\ dirs' = st2.dirs
     /\ archives' = IF creating THEN archives + 1 ELSE archives
     /\ fileHashes' = IF st2.ok THEN EmptyMap ELSE fileHashes
     /\ pathMapping' = IF st2.ok THEN EmptyMap ELSE pathMapping
     /\ lastOp' = [op |-> IF st2.ok THEN "cleanup" ELSE "cleanup.caught", ok |-> TRUE,
                   copied |-> 0, again |-> lastOp.op \in {"cleanup", "cleanup.caught"},
                   archive |-> IF archiving /\ resultsPath \in dirs THEN outcome ELSE ""]
     /\ changes' = {}
     /\ aged' = agedAfter(dirs')
     /\ UNCHANGED otherVars
     /\ UNCHANGED <<srcMtime, inflight, owner, untouched, sessionsMade>>

\* cleanup(preserveResults): archive, remove the session directory, clear
\* the maps; an exception of removeDirectory is caught and logged, and the
\* maps are then left as they are
CleanupWith(preserveResults, outcome, kept, failAt, gone) ==
  LET st0 == [ok |-> TRUE, disk |-> disk, dirs |-> dirs]
      archiving == preserveResults /\ sessionPath \in dirs
      creating == archiving /\ resultsPath \in dirs /\ outcome # "mkdirError"
      st1 == IF archiving THEN archiveResults(st0, archives + 1, outcome, kept) ELSE st0
      st2 == IF sessionPath \in dirs THEN removeDirectory(st1, failAt, gone) ELSE st0
  IN /\ (creating => archives < MaxArchives)
     /\ disk' = st2.disk
     /\ dirs' = st2.dirs
     /\ archives' = IF creating THEN archives + 1 ELSE archives
     /\ fileHashes' = IF st2.ok THEN EmptyMap ELSE fileHashes
     /\ pathMapping' = IF st2.ok THEN EmptyMap ELSE pathMapping
     /\ lastOp' = [op |-> IF st2.ok THEN "cleanup" ELSE "cleanup.caught", ok |-> TRUE,
                   copied |-> 0, again |-> lastOp.op \in {"cleanup", "cleanup.caught"},
                   archive |-> IF archiving /\ resultsPath \in dirs THEN outcome ELSE ""]
     /\ changes' = {}
     /\ aged' = agedAfter(dirs')
     /\ UNCHANGED otherVars
     /\ UNCHANGED <<srcMtime, inflight, owner, untouched, sessionsMade>>

Cleanup(preserveResults) ==
  /\ inflight = {}
  /\ LET results == FilesUnder(disk, resultsPath)
         mayArchive == preserveResults /\ sessionPath \in dirs /\ resultsPath \in dirs
         outcomes == IF mayArchive THEN ArchiveOutcomes ELSE {"ok"}
         failures == IF sessionPath \in dirs
                     THEN {<<>>} \cup FilesUnder(disk, sessionPath) ELSE {<<>>}
     IN \E outcome \in outcomes, failAt \in failures :
          \E kept \in IF outcome = "copyError" THEN (SUBSET results) \ {results} ELSE {{}} :
            \E gone \in IF failAt = <<>> THEN {{}}
                        ELSE SUBSET {f \in FilesUnder(disk, sessionPath) :
                                       parentOf(f) = parentOf(failAt) /\ f # failAt} :
              CleanupWith(preserveResults, outcome, kept, failAt, gone)

\* ------------------------------------------------ other sessions
\* a session directory left behind by a run that never reached cleanup
abandonedId == "session_0"
abandonedPath == <<abandonedId>>

\* generateSessionId of the n-th manager constructed after this one
newSessionId(n) == "session_2" \o Stamp(n)

\* readdirSync(appPath) in name order, item.startsWith("session_")
sessionOrder == <<abandonedId, sessionId>> \o [n \in 1..MaxSessions |-> newSessionId(n)]
sessionRoots(ds) == {dd \in ds : Len(dd) = 1 /\ dd[1] \in SeqRange(sessionOrder)}
sessionsIn(ds) ==
  LET names == SelectSeq(sessionOrder, LAMBDA name : <<name>> \in ds)
  IN [i \in 1..Len(names) |-> <<names[i]>>]

\* the directories ensureSessionDirectory creates for a session path
sessionTree(root) ==
  {root, root \o <<"collected_jsons">>, root \o <<"fixed_jsons">>,
   root \o <<"results">>, root \o <<"input_files">>}

\* removeDirectory(dirPath) for any session directory; failAt: the file below
\* it whose unlinkSync throws (<<>>: none), gone: the files of the directory
\* of failAt unlinked before it
removeDirectoryOf(st, root, failAt, gone) ==
  IF failAt = <<>>
  THEN [st EXCEPT !.ok = TRUE,
                  !.disk = unlinkAll(st.disk, FilesUnder(st.disk, root)),
                  !.dirs = {dd \in st.dirs : dd # root /\ ~IsUnder(root, dd)}]
  ELSE LET depth == Len(root) + 1
           idx == CHOOSE i \in 1..Len(subdirs) : subdirs[i][depth] = parentOf(failAt)[depth]
           before == {root \o <<subdirs[i][depth]>> : i \in 1..(idx - 1)}
       IN [st EXCEPT !.ok = FALSE,
                     !.disk = unlinkAll(st.disk,
                                {f \in FilesUnder(st.disk, root) : parentOf(f) \in before}
                                  \cup gone),
                     !.dirs = st.dirs \ before]

\* the loops of cleanupOldSessions over the session directories of the
\* application: every directory older than maxAge is removed through a newly
\* constructed manager; the first removal that throws ends the call in the
\* catch block, which logs a warning
RECURSIVE cleanupOldSessions(_, _, _, _, _)
cleanupOldSessions(st, sessions, old, failAt, gone) ==
  IF sessions = <<>> THEN st
  ELSE LET session == Head(sessions)
           manager == <<newSessionId(st.made + 1)>>
           st1 == [st EXCEPT !.made = st.made + 1,
                             !.dirs = st.dirs \cup sessionTree(manager)]
           st2 == removeDirectoryOf(st1, session,
                                    IF IsUnder(session, failAt) THEN failAt ELSE <<>>, gone)
       IN IF session \notin old
          THEN cleanupOldSessions(st, Tail(sessions), old, failAt, gone)
          ELSE IF st2.ok
          THEN cleanupOldSessions(st2, Tail(sessions), old, failAt, gone)
          ELSE st2

\* Scanner.constructor in another process: a manager of its own, then
\* TempFileManager.cleanupOldSessions("JSONScanner")
ScannerConstructed(failAt, gone) ==
  /\ sessionsMade + 1 + Cardinality(aged \cap sessionRoots(dirs)) <= MaxSessions
  /\ LET tempManager == <<newSessionId(sessionsMade + 1)>>
         st0 == [ok |-> TRUE, disk |-> disk, dirs |-> dirs \cup sessionTree(tempManager),
                 made |-> sessionsMade + 1]
         st == cleanupOldSessions(st0, sessionsIn(st0.dirs), aged, failAt, gone)
     IN /\ disk' = st.disk
        /\ dirs' = st.dirs
        /\ sessionsMade' = st.made
  /\ aged' = agedAfter(dirs')
  /\ lastOp' = [op |-> "Scanner.constructor", ok |-> TRUE, copied |-> 0, again |-> FALSE,
                archive |-> ""]
  /\ UNCHANGED otherVars
  /\ UNCHANGED <<srcMtime, fileHashes, pathMapping, inflight, changes, archives,
                 owner, untouched>>

\* more than 24 hours pass in which no session directory gets or loses an entry
HoursPass ==
  /\ aged # sessionRoots(dirs)
  /\ aged' = sessionRoots(dirs)
  /\ lastOp' = [op |-> "hoursPass", ok |-> TRUE, copied |-> 0, again |-> FALSE, archive |-> ""]
  /\ UNCHANGED otherVars
  /\ UNCHANGED <<disk, dirs, srcMtime, fileHashes, pathMapping, inflight, changes,
                 archives, owner, untouched, sessionsMade>>

\* ------------------------------------------------ session objects
\* Math.random().toString(36).substring(2, 8)
RandomSuffixes == {"a", "b"}

\* config.app.usePersistentTempFolder
usePersistentTempFolder == TRUE

\* generateSessionId: `session_${timestamp}_${random}`
generateSessionId(timestamp, random) ==
  "session_" \o ToString(timestamp) \o "_" \o random

\* the four category directories of a session object
categoryNames == <<"collected_jsons", "fixed_jsons", "input_files", "results">>
categoryPath(m, category) == m.sessionPath \o <<category>>

\* Date.now() does not run backwards
now == managers[Len(managers)].timestamp

\* new TempFileManager(): a generated session id below the application directory
NewTempFileManager(timestamp, random) ==
  /\ Len(managers) < MaxManagers
  /\ timestamp >= now
  /\ LET id == generateSessionId(timestamp, random)
         m == [kind |-> "TempFileManager", sessionId |-> id,
               sessionPath |-> <<id>>, timestamp |-> timestamp]
     IN /\ managers' = Append(managers, m)
        /\ dirs' = dirs \cup sessionTree(m.sessionPath)
  /\ aged' = agedAfter(dirs')
  /\ lastOp' = [op |-> "new TempFileManager", ok |-> TRUE, copied |-> 0, again |-> FALSE,
                archive |-> ""]
  /\ UNCHANGED <<disk, srcMtime, fileHashes, pathMapping, inflight, changes, archives,
                 owner, untouched, sessionsMade, translation, scannedPaths, srcDirs>>

\* new PersistentTempManager(): the folder "persistent" of the application
\* directory, or a generated session id when the configuration turns the
\* persistent folder off; currentSessionId is generated in both cases
NewPersistentTempManager(timestamp, random) ==
  /\ Len(managers) < MaxManagers
  /\ timestamp >= now
  /\ LET id == generateSessionId(timestamp, random)
         m == [kind |-> "PersistentTempManager", sessionId |-> id,
               sessionPath |-> IF usePersistentTempFolder THEN <<"persistent">> ELSE <<id>>,
               timestamp |-> timestamp]
     IN /\ managers' = Append(managers, m)
        /\ dirs' = dirs \cup sessionTree(m.sessionPath)
  /\ aged' = agedAfter(dirs')
  /\ lastOp' = [op |-> "new PersistentTempManager", ok |-> TRUE, copied |-> 0,
                again |-> FALSE, archive |-> ""]
  /\ UNCHANGED <<disk, srcMtime, fileHashes, pathMapping, inflight, changes, archives,
                 owner, untouched, sessionsMade, translation, scannedPaths, srcDirs>>

\* ------------------------------------------------ exporting results
\* the result files of a run, in the order readdirSync lists them
ExportNames == <<"r.json", "s.json">>

\* the destination directory the caller names
exportDir == <<"exported">>

\* how the I/O of an export can end
ExportOutcomes == {"ok", "mkdirError", "copyError"}

\* the values a JavaScript function returns: typeof and printed form
jsBoolean(b) == [type |-> "boolean", value |-> IF b THEN "true" ELSE "false"]
jsNumber(n) == [type |-> "number", value |-> ToString(n)]

\* readdirSync of a results directory
resultFilesIn(d, resultsDir) ==
  SelectSeq(ExportNames, LAMBDA name : (resultsDir \o <<name>>) \in DOMAIN d)

\* getResultFiles: [] when the results directory is missing
getResultFiles(d, ds) ==
  IF resultsPath \notin ds THEN <<>> ELSE resultFilesIn(d, resultsPath)

\* the copy loop of an export: the first n files of the list, one after another
RECURSIVE copyResults(_, _, _, _, _)
copyResults(d, resultsDir, files, destinationDir, n) ==
  IF n = 0 THEN d
  ELSE copyResults(copyFileSync(d, resultsDir \o <<Head(files)>>,
                                destinationDir \o <<Head(files)>>),
                   resultsDir, Tail(files), destinationDir, n - 1)

\* exportResults(destinationDir): false when there is nothing to export and
\* when anything throws, true after the last copy; k files are copied before
\* a copy throws
ExportResults(outcome, k) ==
  /\ inflight = {}
  /\ LET resultFiles == getResultFiles(disk, dirs)
         empty == resultFiles = <<>>
         mkdirThrows == ~empty /\ exportDir \notin dirs /\ outcome = "mkdirError"
         n == IF empty \/ mkdirThrows THEN 0
              ELSE IF outcome = "copyError" THEN k ELSE Len(resultFiles)
     IN /\ outcome = "mkdirError" => (~empty /\ exportDir \notin dirs)
        /\ outcome = "copyError" => (~empty /\ k < Len(resultFiles))
        /\ outcome = "ok" => k = 0
        /\ dirs' = IF empty \/ mkdirThrows THEN dirs ELSE dirs \cup {exportDir}
        /\ disk' = copyResults(disk, resultsPath, resultFiles, exportDir, n)
        /\ lastOp' = [op |-> "exportResults", ok |-> TRUE, copied |-> n, again |-> FALSE,
                      archive |-> "", returned |-> jsBoolean(~empty /\ outcome = "ok")]
  /\ aged' = agedAfter(dirs')
  /\ UNCHANGED <<srcMtime, fileHashes, pathMapping, inflight, changes, archives, owner,
                 untouched, sessionsMade, managers, translation, scannedPaths, srcDirs>>

\* where the managers keep their sessions, and where main.js looks for them,
\* both below os.tmpdir()
appPath == <<"BRK CNC Management Dashboard", "JSONScanner">>
exportTempBasePath == <<"jsonscanner">>

\* the directories below os.tmpdir(): the application directory, its parent
\* and what the managers made in it
tmpDirs(ds) ==
  {SubSeq(appPath, 1, i) : i \in 1..Len(appPath)} \cup {appPath \o dd : dd \in sessionRoots(ds)}
    \cup {appPath \o dd : dd \in {x \in ds : \E root \in sessionRoots(ds) : IsUnder(root, x)}}

\* the session directories main.js finds: readdirSync(tempBasePath) filtered
\* by startsWith("session_") and isDirectory(), sorted by name
exportSessions(ds) ==
  SelectSeq(sessionOrder, LAMBDA name : (exportTempBasePath \o <<name>>) \in tmpDirs(ds))

\* main.js --export-results <dir>: exportTempResults(destinationDir)
ExportTempResults(outcome, k) ==
  /\ inflight = {}
  /\ LET sessions == exportSessions(dirs)
         found == exportTempBasePath \in tmpDirs(dirs) /\ sessions # <<>>
         latestSession == sessions[Len(sessions)]
         resultsDir == <<latestSession, "results">>
         resultFiles == IF found /\ (exportTempBasePath \o resultsDir) \in tmpDirs(dirs)
                        THEN resultFilesIn(disk, resultsDir) ELSE <<>>
         empty == resultFiles = <<>>
         mkdirThrows == ~empty /\ exportDir \notin dirs /\ outcome = "mkdirError"
         n == IF empty \/ mkdirThrows THEN 0
              ELSE IF outcome = "copyError" THEN k ELSE Len(resultFiles)
     IN /\ outcome = "mkdirError" => (~empty /\ exportDir \notin dirs)
        /\ outcome = "copyError" => (~empty /\ k < Len(resultFiles))
        /\ outcome = "ok" => k = 0
        /\ dirs' = IF empty \/ mkdirThrows THEN dirs ELSE dirs \cup {exportDir}
        /\ disk' = IF empty THEN disk
                   ELSE copyResults(disk, resultsDir, resultFiles, exportDir, n)
        /\ lastOp' = [op |-> "--export-results", ok |-> TRUE, copied |-> n, again |-> FALSE,
                      archive |-> ""]
  /\ aged' = agedAfter(dirs')
  /\ UNCHANGED <<srcMtime, fileHashes, pathMapping, inflight, changes, archives, owner,
                 untouched, sessionsMade, managers, translation, scannedPaths, srcDirs>>

\* ------------------------------------------------ translating names
\* source paths of many lengths: [C:]/x..x/d..d/a..a
Rep(c, n) == [i \in 1..n |-> c]
samplePath(drive, x, d, a) ==
  (IF drive THEN <<"C", ":">> ELSE <<>>)
    \o <<"/">> \o Rep("x", x) \o <<"/">> \o Rep("d", d) \o <<"/">> \o Rep("a", a)

PrefixLens == {1, 60, 120, 200}
DirLens == {1, 30, 100}
FileLens == {1, 2, 9, 10, 60, MaxNameLen}
SamplePaths ==
  {samplePath(drive, x, d, a) : drive \in BOOLEAN, x \in PrefixLens, d \in DirLens,
                                a \in FileLens}

\* one call of getRelativePath on the sample path
GetRelativePath ==
  /\ translation.name = ""
  /\ translation' = [translation EXCEPT !.name = getRelativePath(translation.path)]
  /\ lastOp' = [op |-> "getRelativePath", ok |-> TRUE, copied |-> 0, again |-> FALSE,
                archive |-> ""]
  /\ UNCHANGED <<disk, dirs, srcMtime, fileHashes, pathMapping, inflight, changes,
                 archives, owner, untouched, aged, sessionsMade, managers,
                 scannedPaths, srcDirs>>

\* ------------------------------------------------ scanning
\* config.app.testMode
testMode == FALSE

\* findAllJsonFiles: copyToTemp(fullPath) for every project file the directory
\* lists, each in a try block of its own; a file whose copy throws is logged
\* and left out.  The outcome of the k-th copy is o, the others succeed.
RECURSIVE findAllJsonFiles(_, _, _, _, _, _)
findAllJsonFiles(st, items, mt, k, o, i) ==
  IF items = <<>> THEN st
  ELSE LET fullPath == Head(items)
           st2 == copyFileToTemp(st, fullPath, tempPathFor(fullPath, "input"),
                                 hashOf(st.disk, fullPath), mt[fullPath],
                                 IF i = k THEN o ELSE "ok")
       IN findAllJsonFiles([st2 EXCEPT !.ok = TRUE], Tail(items), mt, k, o, i + 1)

\* Scanner.performScan(scanPath) on the directory of the source files, with
\* detectChanges and updateChangedFiles succeeding: a missing scan path is
\* created outside test mode; a scanned path is checked for changes and, with
\* none, the scan ends; otherwise every project file found is staged
PerformScan(k, o) ==
  /\ inflight = {}
  /\ LET scanPath == srcDir
         missing == scanPath \notin srcDirs
         rescan == scanPath \in scannedPaths
         report == detectChanges([given |-> FALSE, paths |-> {}], disk, fileHashes, srcMtime)
         returnsEarly == missing \/ (rescan /\ ~report.hasChanges)
         queue == IF rescan THEN updateQueue(report) ELSE <<>>
         st1 == updateLoop(curState, queue, srcMtime, 0, "ok", 1)
         items == readdirSync(disk, scanPath)
         st == IF returnsEarly THEN curState
               ELSE findAllJsonFiles(st1, items, srcMtime, k, o, 1)
     IN /\ k \in 0..Len(items)
        /\ (k = 0) = (o = "ok")
        /\ returnsEarly => k = 0
        /\ srcDirs' = IF missing /\ ~testMode THEN srcDirs \cup {scanPath} ELSE srcDirs
        /\ scannedPaths' = IF missing THEN scannedPaths ELSE scannedPaths \cup {scanPath}
        /\ disk' = st.disk
        /\ fileHashes' = st.fileHashes
        /\ pathMapping' = st.pathMapping
        /\ dirs' = IF returnsEarly \/ items = <<>> THEN dirs
                   ELSE mkdirSync(dirs, inputFilesPath)
        /\ untouched' = IF returnsEarly THEN untouched
                        ELSE untouched \cup SeqRange(queue)
                               \cup {items[i] : i \in (1..Len(items)) \ {k}}
        /\ lastOp' = [op |-> "performScan", ok |-> TRUE, copied |-> st.copies,
                      again |-> rescan /\ ~missing, archive |-> ""]
  /\ changes' = {}
  /\ aged' = agedAfter(dirs')
  /\ UNCHANGED <<srcMtime, inflight, archives, owner, sessionsMade, managers, translation>>

\* ------------------------------------------------ DataManager queries
\* getAllProjects up to its return: new TempFileManager() runs the
\* constructor, which creates a session directory of its own; the object has
\* no method getBasePath, the call throws, the catch block logs and the
\* query returns [] without having read a result file
getAllProjects(op, timestamp, random) ==
  /\ Len(managers) < MaxManagers
  /\ timestamp >= now
  /\ LET id == generateSessionId(timestamp, random)
         tempManager == [kind |-> "TempFileManager", sessionId |-> id,
                         sessionPath |-> <<id>>, timestamp |-> timestamp]
     IN /\ managers' = Append(managers, tempManager)
        /\ dirs' = dirs \cup sessionTree(tempManager.sessionPath)
  /\ aged' = agedAfter(dirs')
  /\ lastOp' = [op |-> op, ok |-> TRUE, copied |-> 0, again |-> FALSE, archive |-> ""]
  /\ UNCHANGED <<disk, srcMtime, fileHashes, pathMapping, inflight, changes, archives,
                 owner, untouched, sessionsMade, translation, scannedPaths, srcDirs>>

GetAllProjects(timestamp, random) == getAllProjects("getAllProjects", timestamp, random)

\* getProject(projectId): getAllProjects(), no project found in its empty
\* answer, null returned before the second manager is constructed
GetProject(timestamp, random) == getAllProjects("getProject", timestamp, random)

\* getAnalysis(projectId): getProject(projectId), then null
GetAnalysis(timestamp, random) == getAllProjects("getAnalysis", timestamp, random)

\* ------------------------------------------------ persistent project copies
\* a project directory of the owner: the JSON file, an NC program of the
\* control (extension in capitals) and a picture
jsonFile == <<"/", "d", "/", "p", ".", "j", "s", "o", "n">>
ncFile == <<"/", "d", "/", "p", ".", "H">>
gifFile == <<"/", "d", "/", "p", ".", "g", "i", "f">>
ProjectPaths == {jsonFile, ncFile, gifFile}
ProjectOrder == <<ncFile, gifFile, jsonFile>>

\* config.tempFiles
essentialExtensions == {".json", ".h", ".tls"}
skipExtensions == {".gif", ".png", ".jpg", ".html", ".stl", ".vcproject"}
sessionTrackingExtension == ".session"

toLowerCase(c) == IF c = "H" THEN "h" ELSE c

\* path.extname(filename).toLowerCase(): from the last "." of the name on,
\* nothing when the name has no "." or only starts with one
extname(filename) ==
  LET dots == {j \in 1..Len(filename) : filename[j] = "."}
      k == IF dots = {} THEN 0 ELSE CHOOSE j \in dots : \A m \in dots : m <= j
  IN IF k <= 1 THEN ""
     ELSE Concat([i \in 1..(Len(filename) - k + 1) |-> toLowerCase(filename[k + i - 1])])

isEssentialFile(filename) ==
  LET ext == extname(filename)
  IN IF ext \in skipExtensions THEN FALSE
     ELSE IF ext \in essentialExtensions THEN TRUE
     ELSE FALSE

\* findEssentialFiles(dirPath): the essential files of the directory, in
\* readdir order
findEssentialFiles(d, dirPath) ==
  SelectSeq(ProjectOrder,
            LAMBDA p : p \in DOMAIN d /\ dirname(p) = dirPath /\ isEssentialFile(basename(p)))

\* the names of a relative path
RECURSIVE splitPath(_)
splitPath(p) ==
  LET slashes == {j \in 1..Len(p) : p[j] = "/"}
      k == IF slashes = {} THEN 0 ELSE CHOOSE j \in slashes : \A m \in slashes : j <= m
  IN IF p = <<>> THEN <<>>
     ELSE IF k = 0 THEN <<Concat(p)>>
     ELSE <<Concat(SubSeq(p, 1, k - 1))>> \o splitPath(SubSeq(p, k + 1, Len(p)))

\* path.join(this.sessionPath, path.relative(sourceBasePath, file)) for a
\* file below sourceBasePath
persistentPath == <<"persistent">>
persistentManager == [kind |-> "PersistentTempManager", sessionId |-> sessionId,
                      sessionPath |-> persistentPath, timestamp |-> 0]
projectTempPath(sourceBasePath, file) ==
  persistentPath \o splitPath(SubSeq(file, Len(sourceBasePath) + 2, Len(file)))

\* hasFileChanged: no staged file, no stored entry or a statSync that
\* throws count as changed; otherwise a changed modification time and then a
\* changed hash
hasFileChanged(d, fh, mt, sourcePath, tempPath) ==
  IF tempPath \notin DOMAIN d THEN TRUE
  ELSE IF sourcePath \notin DOMAIN d THEN TRUE
  ELSE IF sourcePath \notin DOMAIN fh THEN TRUE
  ELSE /\ mt[sourcePath] # fh[sourcePath].mtime
       /\ calculateFileHash(d[sourcePath]) # fh[sourcePath].hash

\* the copies of copyJsonProject: copyFileWithTracking for the JSON file and
\* then for every essential file of its directory; the first copy that
\* throws ends the call.  The outcome of the k-th copy is o.
RECURSIVE copyProjectLoop(_, _, _, _, _, _, _)
copyProjectLoop(st, queue, sourceBasePath, mt, k, o, i) ==
  IF queue = <<>> THEN st
  ELSE LET file == Head(queue)
           st2 == copyFileToTemp(st, file, projectTempPath(sourceBasePath, file),
                                 hashOf(st.disk, file), mt[file],
                                 IF i = k THEN o ELSE "ok")
       IN IF st2.ok THEN copyProjectLoop(st2, Tail(queue), sourceBasePath, mt, k, o, i + 1)
          ELSE st2

\* copyJsonProject(jsonFilePath, sourceBasePath): when hasFileChanged finds
\* the JSON file changed, the JSON file and the essential files of its
\* directory are copied and the session file is written; when not, the
\* staged files are only listed
CopyJsonProject(jsonFilePath, sourceBasePath, k, o) ==
  /\ inflight = {}
  /\ LET tempJsonPath == projectTempPath(sourceBasePath, jsonFilePath)
         hasChanged == hasFileChanged(disk, fileHashes, srcMtime, jsonFilePath, tempJsonPath)
         queue == IF hasChanged
                  THEN <<jsonFilePath>> \o findEssentialFiles(disk, dirname(jsonFilePath))
                  ELSE <<>>
         st == copyProjectLoop(curState, queue, sourceBasePath, srcMtime, k, o, 1)
         sessionFile == SubSeq(tempJsonPath, 1, Len(tempJsonPath) - 1)
                          \o <<tempJsonPath[Len(tempJsonPath)] \o sessionTrackingExtension>>
     IN /\ k \in 0..Len(queue)
        /\ (k = 0) = (o = "ok")
        /\ disk' = IF hasChanged /\ st.ok THEN writeFileSync(st.disk, sessionFile, 1)
                   ELSE st.disk
        /\ fileHashes' = st.fileHashes
        /\ pathMapping' = st.pathMapping
        /\ dirs' = mkdirSync(dirs, parentOf(tempJsonPath))
        /\ untouched' = untouched \cup {queue[i] : i \in 1..st.copies}
        /\ lastOp' = [op |-> "copyJsonProject", ok |-> st.ok, copied |-> st.copies,
                      again |-> ~hasChanged, archive |-> ""]
  /\ aged' = agedAfter(dirs')
  /\ UNCHANGED <<srcMtime, inflight, changes, archives, owner, sessionsMade, managers,
                 translation, scannedPaths, srcDirs>>

\* the owner edits a file of the project; the change is stamped later than
\* every change before it
OwnerEdits(p, c) ==
  /\ p \in DOMAIN disk
  /\ c # disk[p]
  /\ MaxOf({srcMtime[q] : q \in DOMAIN srcMtime}) < MaxTime
  /\ disk' = [disk EXCEPT ![p] = c]
  /\ srcMtime' = [srcMtime EXCEPT ![p] = MaxOf({srcMtime[q] : q \in DOMAIN srcMtime}) + 1]
  /\ owner' = [owner EXCEPT ![p] = c]
  /\ untouched' = untouched \ {p}
  /\ lastOp' = [op |-> "owner", ok |-> TRUE, copied |-> 0, again |-> FALSE, archive |-> ""]
  /\ UNCHANGED sessionVars

\* ------------------------------------------------ cleanup of generated files
\* config.paths.test: both entries join the same names, so the path of the
\* automatic mode and the path of the manual mode are one directory (here /t)
testDataPathAuto == <<"/", "t">>
testDataPathManual == <<"/", "t">>
projectDir == testDataPathAuto \o <<"/", "s">>

BRK_fixed == <<"B", "R", "K", "_", "f", "i", "x", "e", "d", ".", "j", "s", "o", "n">>
BRK_result == <<"B", "R", "K", "_", "r", "e", "s", "u", "l", "t", ".", "j", "s", "o", "n">>

\* the files the scanner works with below the test data directory: an input
\* file, and the fixed and result files generated next to the inputs
inputJson == testDataPathAuto \o <<"/", "p", ".", "j", "s", "o", "n">>
fixedJson == testDataPathAuto \o <<"/", "p", "_">> \o BRK_fixed
resultJson == testDataPathAuto \o <<"/", "p", "_">> \o BRK_result
projectResultJson == projectDir \o <<"/", "q", "_">> \o BRK_result
TestDataPaths == {inputJson, fixedJson, resultJson, projectResultJson}

\* String.prototype.includes / endsWith on character sequences
includes(s, sub) == \E i \in 1..(Len(s) - Len(sub) + 1) : SubSeq(s, i, i + Len(sub) - 1) = sub
endsWith(s, sub) == Len(s) >= Len(sub) /\ SubSeq(s, Len(s) - Len(sub) + 1, Len(s)) = sub

isGeneratedFile(filename) ==
  \/ includes(filename, BRK_fixed)
  \/ includes(filename, BRK_result)
  \/ endsWith(filename, <<"_">> \o BRK_fixed)
  \/ endsWith(filename, <<"_">> \o BRK_result)

\* the files a recursive readdirSync walk from dirPath comes to
filesBelow(d, dirPath) ==
  {f \in DOMAIN d : Len(f) > Len(dirPath) + 1 /\ SubSeq(f, 1, Len(dirPath) + 1) = dirPath \o <<"/">>}

\* countGeneratedFiles(dirPath)
countGeneratedFiles(d, dirPath) ==
  Cardinality({f \in filesBelow(d, dirPath) : isGeneratedFile(basename(f))})

\* getCleanupStats: the counts of the two configured paths, added up
getCleanupStats(d, ds) ==
  LET autoCount == IF testDataPathAuto \in ds THEN countGeneratedFiles(d, testDataPathAuto) ELSE 0
      manualCount == IF testDataPathManual \in ds
                     THEN countGeneratedFiles(d, testDataPathManual) ELSE 0
  IN [totalFiles |-> autoCount + manualCount, autoPathFiles |-> autoCount,
      manualPathFiles |-> manualCount]

\* node main.js --cleanup-stats: new CleanupService().getCleanupStats()
GetCleanupStats ==
  /\ lastOp' = [op |-> "getCleanupStats", ok |-> TRUE, copied |-> 0, again |-> FALSE,
                archive |-> "", returned |-> getCleanupStats(disk, srcDirs)]
  /\ UNCHANGED <<disk, dirs, srcMtime, fileHashes, pathMapping, inflight, changes,
                 archives, owner, untouched, aged, sessionsMade, managers, translation,
                 scannedPaths, srcDirs>>

\* cleanupPath(dirPath) on the service st: unlinkSync of every generated
\* file of the walk; failing: the files whose unlinkSync throws
cleanupPath(st, dirPath, failing) ==
  LET generated == {f \in filesBelow(st.disk, dirPath) : isGeneratedFile(basename(f))}
  IN [disk |-> unlinkAll(st.disk, generated \ failing),
      deletedCount |-> st.deletedCount + Cardinality(generated \ failing),
      errorCount |-> st.errorCount + Cardinality(generated \cap failing)]

\* node main.js --cleanup: new CleanupService().cleanupGeneratedFiles(),
\* cleanupPath for the path of the automatic and then of the manual mode
CleanupGeneratedFiles(failing) ==
  /\ failing \subseteq DOMAIN disk
  /\ LET st0 == [disk |-> disk, deletedCount |-> 0, errorCount |-> 0]
         st1 == IF testDataPathAuto \in srcDirs
                THEN cleanupPath(st0, testDataPathAuto, failing) ELSE st0
         st2 == IF testDataPathManual \in srcDirs
                THEN cleanupPath(st1, testDataPathManual, failing) ELSE st1
     IN /\ disk' = st2.disk
        /\ lastOp' = [op |-> "cleanupGeneratedFiles", ok |-> TRUE, copied |-> 0,
                      again |-> FALSE, archive |-> "",
                      deletedCount |-> st2.deletedCount, errorCount |-> st2.errorCount]
  /\ UNCHANGED <<dirs, srcMtime, fileHashes, pathMapping, inflight, changes,
                 archives, owner, untouched, aged, sessionsMade, managers, translation,
                 scannedPaths, srcDirs>>

\* ------------------------------------------------ specifications
OwnerStep(P) ==
  \/ \E p \in P, c \in Contents : OwnerWrite(p, c)
  \/ \E p \in P : OwnerTouch(p)
  \/ \E p \in P : OwnerDelete(p)
  \/ \E p \in P, c \in Contents : OwnerCreate(p, c)

StagingStep(P) ==
  \/ \E p \in P, t \in StageTypes, f \in BOOLEAN : CopyToTempBegin(p, t, f)
  \/ \E o \in CopyOutcomes : CopyToTempFinish(o)
  \/ \E a \in DetectArgs, bad \in SUBSET P : a.paths \subseteq P /\ DetectChanges(a, bad)
  \/ \E k \in 0..Cardinality(P), o \in CopyOutcomes : UpdateChangedFiles(k, o)

\* ------------------------------------------------ shutdown
\* the process runs until a signal handler has called process.exit
alive == lastOp.op # "process.exit"

\* process.on("SIGINT") and process.on("SIGTERM"): two log lines, then
\* process.exit(0); no handler for "exit" is registered anywhere
ShutdownSignal(signal) ==
  /\ alive
  /\ signal \in {"SIGINT", "SIGTERM"}
  /\ lastOp' = [op |-> "process.exit", ok |-> TRUE, copied |-> 0, again |-> FALSE,
                archive |-> ""]
  /\ UNCHANGED <<disk, dirs, srcMtime, fileHashes, pathMapping, inflight, changes,
                 archives, owner, untouched, aged, sessionsMade, managers, translation,
                 scannedPaths, srcDirs>>

\* what the process does while it runs
WhileAlive(P) ==
  /\ alive
  /\ \/ StagingStep(P)
     \/ \E n \in ArtifactNames, c \in ArtifactContents, t \in SaveTypes : SaveToTemp(n, c, t)

\* staging and change detection over both source files
Next == OwnerStep(SrcPaths) \/ StagingStep(SrcPaths)

Spec == Init /\ [][Next]_vars

\* the whole life of a session, from construction to teardown, staging srcA
LifePaths == {srcA}

NextLife ==
  \/ OwnerStep(LifePaths)
  \/ StagingStep(LifePaths)
  \/ \E n \in ArtifactNames, c \in ArtifactContents, t \in SaveTypes : SaveToTemp(n, c, t)
  \/ \E pr \in BOOLEAN : Cleanup(pr)

SpecLife == Init /\ [][NextLife]_vars

\* staging the directory of the source files as a whole
NextDir ==
  \/ OwnerStep(SrcPaths)
  \/ \E k \in 0..Cardinality(SrcPaths), o \in CopyOutcomes : CopyDirectoryToTemp(k, o)
  \/ \E a \in DetectArgs, bad \in SUBSET SrcPaths : DetectChanges(a, bad)

SpecDir == Init /\ [][NextDir]_vars

\* this session next to the sessions of other managers: the manager was
\* constructed while an abandoned session directory, older than 24 hours,
\* lay in the application directory
InitGC ==
  /\ disk = ((abandonedPath \o <<"results", "r.json">>) :> 1) @@ [p \in SrcPaths |-> 1]
  /\ dirs = ensureSessionDirectory(sessionTree(abandonedPath))
  /\ srcMtime = [p \in SrcPaths |-> 0]
  /\ fileHashes = EmptyMap
  /\ pathMapping = EmptyMap
  /\ inflight = {}
  /\ changes = {}
  /\ archives = 0
  /\ owner = [p \in SrcPaths |-> 1]
  /\ untouched = {}
  /\ lastOp = [op |-> "constructor", ok |-> TRUE, copied |-> 0, again |-> FALSE, archive |-> ""]
  /\ aged = {abandonedPath}
  /\ sessionsMade = 0
  /\ managers = <<thisManager>>
  /\ translation = [path |-> srcA, name |-> ""]
  /\ scannedPaths = {}
  /\ srcDirs = {srcDir}

NextGC ==
  \/ HoursPass
  \/ \E failAt \in {<<>>} \cup {f \in DOMAIN disk : \E s \in aged : IsUnder(s, f)} :
       \E gone \in IF failAt = <<>> THEN {{}}
                   ELSE SUBSET {f \in DOMAIN disk : parentOf(f) = parentOf(failAt) /\ f # failAt} :
         ScannerConstructed(failAt, gone)
  \/ \E p \in LifePaths, t \in StageTypes, f \in BOOLEAN : CopyToTempBegin(p, t, f)
  \/ \E o \in CopyOutcomes : CopyToTempFinish(o)
  \/ \E n \in ArtifactNames, c \in ArtifactContents, t \in SaveTypes : SaveToTemp(n, c, t)

SpecGC == InitGC /\ [][NextGC]_vars

\* the session objects one process constructs
NextSessions ==
  \/ \E t \in 0..MaxTime, r \in RandomSuffixes : NewPersistentTempManager(t, r)
  \/ \E t \in 0..MaxTime, r \in RandomSuffixes : NewTempFileManager(t, r)

SpecSessions == Init /\ [][NextSessions]_vars

\* staging by callers that do not wait for one another
NextConcurrent ==
  \/ \E p \in SrcPaths, c \in Contents : OwnerWrite(p, c)
  \/ \E p \in SrcPaths, t \in StageTypes, f \in BOOLEAN : CopyToTempConcurrently(p, t, f)
  \/ \E c \in inflight, o \in CopyOutcomes : CopyToTempResume(c, o)

SpecConcurrent == Init /\ [][NextConcurrent]_vars

\* results saved by a run and exported by the manager or by the command line
NextExport ==
  \/ \E i \in 1..Len(ExportNames), c \in ArtifactContents, t \in SaveTypes :
       SaveToTemp(ExportNames[i], c, t)
  \/ \E o \in ExportOutcomes, k \in 0..Len(ExportNames) : ExportResults(o, k)
  \/ \E o \in ExportOutcomes, k \in 0..Len(ExportNames) : ExportTempResults(o, k)
  \/ \E p \in LifePaths, c \in Contents : OwnerWrite(p, c)

SpecExport == Init /\ [][NextExport]_vars

\* the name translation on its own, over source paths of many lengths
InitNames ==
  /\ disk = [p \in SrcPaths |-> 1]
  /\ dirs = ensureSessionDirectory({})
  /\ srcMtime = [p \in SrcPaths |-> 0]
  /\ fileHashes = EmptyMap
  /\ pathMapping = EmptyMap
  /\ inflight = {}
  /\ changes = {}
  /\ archives = 0
  /\ owner = [p \in SrcPaths |-> 1]
  /\ untouched = {}
  /\ lastOp = [op |-> "constructor", ok |-> TRUE, copied |-> 0, again |-> FALSE, archive |-> ""]
  /\ aged = {}
  /\ sessionsMade = 0
  /\ managers = <<thisManager>>
  /\ translation \in [path : SamplePaths, name : {""}]
  /\ scannedPaths = {}
  /\ srcDirs = {srcDir}

NextNames == GetRelativePath

SpecNames == InitNames /\ [][NextNames]_vars

\* a scanner on the directory of the source files, which exists with its
\* files or does not exist at all when the scanner starts
InitScan ==
  /\ srcDirs \in {{}, {srcDir}}
  /\ disk = [p \in (IF srcDirs = {} THEN {} ELSE SrcPaths) |-> 1]
  /\ dirs = ensureSessionDirectory({})
  /\ srcMtime = [p \in SrcPaths |-> 0]
  /\ fileHashes = EmptyMap
  /\ pathMapping = EmptyMap
  /\ inflight = {}
  /\ changes = {}
  /\ archives = 0
  /\ owner = [p \in SrcPaths |-> IF srcDirs = {} THEN Deleted ELSE 1]
  /\ untouched = {}
  /\ lastOp = [op |-> "constructor", ok |-> TRUE, copied |-> 0, again |-> FALSE, archive |-> ""]
  /\ aged = {}
  /\ sessionsMade = 0
  /\ managers = <<thisManager>>
  /\ translation = [path |-> srcA, name |-> ""]
  /\ scannedPaths = {}

NextScan ==
  \/ \E p \in SrcPaths, c \in Contents : OwnerWrite(p, c)
  \/ \E p \in SrcPaths : OwnerTouch(p)
  \/ \E p \in SrcPaths : OwnerDelete(p)
  \/ \E p \in SrcPaths, c \in Contents : OwnerCreateInDirectory(p, c)
  \/ \E k \in 0..Cardinality(SrcPaths), o \in CopyOutcomes : PerformScan(k, o)

SpecScan == InitScan /\ [][NextScan]_vars

\* a session in use when the process is told to stop
NextSignal ==
  \/ \E p \in LifePaths, c \in Contents : OwnerWrite(p, c)
  \/ WhileAlive(LifePaths)
  \/ \E signal \in {"SIGINT", "SIGTERM"} : ShutdownSignal(signal)

SpecSignal == Init /\ [][NextSignal]_vars

\* a file in the root directory whose own name holds the text that
\* getRelativePath puts in place of a separator
srcAlias == <<"/", "d", "_", "S", "L", "A", "S", "H", "_", "a">>
AliasPaths == {srcA, srcAlias}

InitAlias ==
  /\ disk = [p \in SrcPaths \cup AliasPaths |-> 1]
  /\ dirs = ensureSessionDirectory({})
  /\ srcMtime = [p \in SrcPaths \cup AliasPaths |-> 0]
  /\ fileHashes = EmptyMap
  /\ pathMapping = EmptyMap
  /\ inflight = {}
  /\ changes = {}
  /\ archives = 0
  /\ owner = [p \in SrcPaths \cup AliasPaths |-> disk[p]]
  /\ untouched = {}
  /\ lastOp = [op |-> "constructor", ok |-> TRUE, copied |-> 0, again |-> FALSE, archive |-> ""]
  /\ aged = {}
  /\ sessionsMade = 0
  /\ managers = <<thisManager>>
  /\ translation = [path |-> srcA, name |-> ""]
  /\ scannedPaths = {}
  /\ srcDirs = {srcDir, <<"/">>}

NextAlias ==
  \/ \E p \in AliasPaths, c \in Contents : OwnerWrite(p, c)
  \/ \E p \in AliasPaths, t \in StageTypes, f \in BOOLEAN : CopyToTempBegin(p, t, f)
  \/ \E o \in CopyOutcomes : CopyToTempFinish(o)

SpecAlias == InitAlias /\ [][NextAlias]_vars

\* the source files staged as part of their directory and one by one
NextMixed ==
  \/ \E p \in LifePaths, c \in Contents : OwnerWrite(p, c)
  \/ \E k \in 0..Cardinality(SrcPaths), o \in CopyOutcomes : CopyDirectoryToTemp(k, o)
  \/ \E p \in LifePaths, t \in StageTypes : CopyToTempBegin(p, t, FALSE)
  \/ \E o \in {"ok", "copyError"} : CopyToTempFinish(o)
  \/ DetectChanges([given |-> FALSE, paths |-> {}], {})
  \/ \E k \in 0..Cardinality(SrcPaths), o \in {"ok", "copyError"} : UpdateChangedFiles(k, o)

SpecMixed == Init /\ [][NextMixed]_vars

\* the read queries of the data manager next to a session that saves results
NextQueries ==
  \/ \E t \in 0..MaxTime, r \in RandomSuffixes : GetAllProjects(t, r)
  \/ \E t \in 0..MaxTime, r \in RandomSuffixes : GetProject(t, r)
  \/ \E t \in 0..MaxTime, r \in RandomSuffixes : GetAnalysis(t, r)
  \/ \E n \in ArtifactNames, c \in ArtifactContents, t \in SaveTypes : SaveToTemp(n, c, t)

SpecQueries == Init /\ [][NextQueries]_vars

\* a persistent manager staging the project of the directory /d
InitProject ==
  /\ disk = [p \in ProjectPaths |-> 1]
  /\ dirs = sessionTree(persistentPath)
  /\ srcMtime = [p \in ProjectPaths |-> 0]
  /\ fileHashes = EmptyMap
  /\ pathMapping = EmptyMap
  /\ inflight = {}
  /\ changes = {}
  /\ archives = 0
  /\ owner = [p \in ProjectPaths |-> 1]
  /\ untouched = {}
  /\ lastOp = [op |-> "constructor", ok |-> TRUE, copied |-> 0, again |-> FALSE, archive |-> ""]
  /\ aged = {}
  /\ sessionsMade = 0
  /\ managers = <<persistentManager>>
  /\ translation = [path |-> srcA, name |-> ""]
  /\ scannedPaths = {}
  /\ srcDirs = {srcDir}

NextProject ==
  \/ \E p \in ProjectPaths, c \in Contents : OwnerEdits(p, c)
  \/ \E k \in 0..Cardinality(ProjectPaths), o \in CopyOutcomes :
       CopyJsonProject(jsonFile, srcDir, k, o)

SpecProject == InitProject /\ [][NextProject]_vars

\* the test data directory with an input file and the files generated for
\* it; runs of the scanner and the owner add and remove files
InitCleanupService ==
  /\ disk = [p \in TestDataPaths |-> 1]
  /\ dirs = ensureSessionDirectory({})
  /\ srcMtime = [p \in SrcPaths \cup TestDataPaths |-> 0]
  /\ fileHashes = EmptyMap
  /\ pathMapping = EmptyMap
  /\ inflight = {}
  /\ changes = {}
  /\ archives = 0
  /\ owner = [p \in TestDataPaths |-> 1]
  /\ untouched = {}
  /\ lastOp = [op |-> "constructor", ok |-> TRUE, copied |-> 0, again |-> FALSE, archive |-> ""]
  /\ aged = {}
  /\ sessionsMade = 0
  /\ managers = <<thisManager>>
  /\ translation = [path |-> srcA, name |-> ""]
  /\ scannedPaths = {}
  /\ srcDirs = {testDataPathAuto, projectDir}

NextCleanupService ==
  \/ \E p \in TestDataPaths : OwnerDelete(p)
  \/ \E p \in TestDataPaths : OwnerCreateInDirectory(p, 1)
  \/ GetCleanupStats
  \/ \E failing \in SUBSET TestDataPaths : CleanupGeneratedFiles(failing)

SpecCleanupService == InitCleanupService /\ [][NextCleanupService]_vars

\* ------------------------------------------------ properties
changedPaths(r) == {r.changedFiles[i].path : i \in 1..Len(r.changedFiles)}

\* the report in `changes` was returned by the last operation, so the disk
\* and the maps are still the ones it was computed from
FreshReport == lastOp.op \in {"detectChanges", "detectChanges(paths)"} /\ lastOp.ok /\ changes # {}

C2_FingerprintsComplete ==
  \A p \in DOMAIN fileHashes :
    /\ fileHashes[p].tempPath \in DOMAIN disk
    /\ disk[fileHashes[p].tempPath] # PartialBytes

C4_RestageCopiesNothing ==
  (lastOp.op = "copyToTemp" /\ lastOp.ok /\ lastOp.again) => lastOp.copied = 0

\* C5: a file is reported as modified only when its modification time differs
\* from the recorded one and its hash differs from the recorded one; a file
\* with a new modification time and the recorded hash is not reported
C5_ModifiedNeedsMtimeAndHash ==
  FreshReport =>
    \A r \in changes :
      /\ \A p \in changedPaths(r) :
           /\ p \in DOMAIN fileHashes /\ p \in DOMAIN disk
           /\ srcMtime[p] # fileHashes[p].mtime
           /\ calculateFileHash(disk[p]) # fileHashes[p].hash
      /\ \A p \in r.checked :
           (/\ p \in DOMAIN fileHashes /\ p \in DOMAIN disk
            /\ srcMtime[p] # fileHashes[p].mtime
            /\ calculateFileHash(disk[p]) = fileHashes[p].hash)
           => p \notin changedPaths(r)

\* a touched file was checked and not reported
C5_Witness ==
  /\ FreshReport
  /\ \E r \in changes : \E p \in r.checked :
       /\ p \in DOMAIN fileHashes /\ p \in DOMAIN disk
       /\ srcMtime[p] # fileHashes[p].mtime
       /\ fileHashes[p].tempPath \in DOMAIN disk
       /\ disk[p] = disk[fileHashes[p].tempPath]
       /\ p \notin changedPaths(r)

\* C6: detectChanges() lists no file that was staged successfully and not
\* touched since; when that holds of every tracked file the report is empty
C6_UntouchedReportsNothing ==
  (FreshReport /\ lastOp.op = "detectChanges") =>
    \A r \in changes :
      /\ \A p \in untouched \cap DOMAIN fileHashes :
           /\ p \notin changedPaths(r)
           /\ p \notin SeqRange(r.newFiles)
           /\ p \notin SeqRange(r.deletedFiles)
      /\ (DOMAIN fileHashes \subseteq untouched) =>
           /\ ~r.hasChanges
           /\ r.changedFiles = <<>> /\ r.newFiles = <<>> /\ r.deletedFiles = <<>>

\* an empty report about a staged, untouched file
C6_Witness ==
  /\ FreshReport /\ lastOp.op = "detectChanges"
  /\ fileHashes # EmptyMap
  /\ DOMAIN fileHashes \subseteq untouched
  /\ \E r \in changes : ~r.hasChanges /\ r.checked # {}

\* C7: a tracked file that is gone is listed as deleted and as nothing else,
\* and the three lists of a report are pairwise disjoint
C7_DeletedOnlyDeleted ==
  FreshReport =>
    \A r \in changes :
      /\ \A p \in r.checked :
           (p \in DOMAIN fileHashes /\ p \notin DOMAIN disk) =>
             /\ p \in SeqRange(r.deletedFiles)
             /\ p \notin changedPaths(r)
             /\ p \notin SeqRange(r.newFiles)
      /\ changedPaths(r) \cap SeqRange(r.newFiles) = {}
      /\ changedPaths(r) \cap SeqRange(r.deletedFiles) = {}
      /\ SeqRange(r.newFiles) \cap SeqRange(r.deletedFiles) = {}

\* a tracked file was deleted and reported so
C7_Witness ==
  /\ FreshReport
  /\ \E r \in changes : \E p \in SeqRange(r.deletedFiles) :
       p \in DOMAIN fileHashes /\ p \notin DOMAIN disk

\* C8 as stated: every checked path without a fingerprint is listed as added
\* and as nothing else
C8_UntrackedIsAdded ==
  FreshReport =>
    \A r \in changes : \A p \in r.checked :
      p \notin DOMAIN fileHashes =>
        /\ p \in SeqRange(r.newFiles)
        /\ p \notin changedPaths(r)
        /\ p \notin SeqRange(r.deletedFiles)

\* C8 amended: a checked path without a fingerprint is listed as added and as
\* nothing else when the file exists, and as deleted and as nothing else when
\* it does not
C8_UntrackedExistingIsAdded ==
  FreshReport =>
    \A r \in changes : \A p \in r.checked :
      p \notin DOMAIN fileHashes =>
        /\ p \notin changedPaths(r)
        /\ (p \in DOMAIN disk) = (p \in SeqRange(r.newFiles))
        /\ (p \notin DOMAIN disk) = (p \in SeqRange(r.deletedFiles))

\* an untracked existing file was reported as added
C8_Witness ==
  /\ FreshReport
  /\ \E r \in changes : \E p \in SeqRange(r.newFiles) :
       p \notin DOMAIN fileHashes /\ p \in DOMAIN disk

\* C9: a detectChanges call, returning or failing, changes neither fileHashes
\* nor pathMapping nor any file or directory
C9_DetectChangesIsPureRead ==
  [][lastOp'.op \in {"detectChanges", "detectChanges(paths)"} =>
       /\ fileHashes' = fileHashes
       /\ pathMapping' = pathMapping
       /\ disk' = disk
       /\ dirs' = dirs]_vars

\* a touched file was checked, or a check failed, with files tracked
C9_Witness ==
  /\ lastOp.op \in {"detectChanges", "detectChanges(paths)"}
  /\ \E p \in DOMAIN fileHashes :
       p \in DOMAIN disk /\ srcMtime[p] # fileHashes[p].mtime
          /\ calculateFileHash(disk[p]) = fileHashes[p].hash

\* C11 as stated: after a directory was staged and one of its files failed,
\* every other file of the directory has a fingerprint and a complete staged
\* copy below the staged directory
C11_FailingFileSkipped ==
  (lastOp.op = "copyToTemp(dir)" /\ ~lastOp.ok) =>
    Cardinality({p \in SeqRange(readdirSync(disk, srcDir)) :
                   ~(/\ p \in DOMAIN fileHashes
                     /\ tempItemFor(tempPathFor(srcDir, "input"), p) \in DOMAIN disk
                     /\ disk[tempItemFor(tempPathFor(srcDir, "input"), p)] = disk[p])}) <= 1

\* C10: updateChangedFiles called again with the report it has just applied,
\* no source changed in between, copies no bytes
C10_ReapplyCopiesNothing ==
  (lastOp.op = "updateChangedFiles" /\ lastOp.ok /\ lastOp.again) => lastOp.copied = 0

\* C12 as stated: a detectChanges call in which the stat or the hash of a path
\* failed still returns a report to its caller
C12_BatchNotAborted ==
  lastOp.op \in {"detectChanges", "detectChanges(paths)"} => (lastOp.ok /\ changes # {})

\* the files that exist after a step and did not exist, or held other bytes,
\* before it
written == {f \in DOMAIN disk' : f \notin DOMAIN disk \/ disk'[f] # disk[f]}

\* C13: saveToTemp leaves fileHashes and pathMapping as they are, removes no
\* file and no directory, and writes at most one file, which lies directly
\* inside the directory of a category
C13_SaveToTempCreatesNoFingerprint ==
  [][lastOp'.op = "saveToTemp" =>
       /\ fileHashes' = fileHashes
       /\ pathMapping' = pathMapping
       /\ dirs' = dirs
       /\ DOMAIN disk \subseteq DOMAIN disk'
       /\ Cardinality(written) <= 1
       /\ \A f \in written : \E t \in SaveTypes : parentOf(f) = getPathForType(t)
       /\ (~lastOp'.ok => written = {})]_vars

\* an artifact was saved among the fixed JSONs of a session that tracks a
\* staged file
C13_Witness ==
  /\ lastOp.op = "saveToTemp" /\ lastOp.ok
  /\ fileHashes # EmptyMap
  /\ (fixedJsonsPath \o <<"r.json">>) \in DOMAIN disk
  /\ disk[fixedJsonsPath \o <<"r.json">>] = 2

cleanupOps == {"cleanup", "cleanup.caught"}

\* C14 as stated: a cleanup(true) that found the results directory leaves a
\* new archive directory holding exactly the files of results, byte for byte,
\* and no session directory
C14_ArchivedThenRemoved ==
  [][(lastOp'.op \in cleanupOps /\ lastOp'.archive # "") =>
       LET target == sessionArchiveDir(archives + 1)
           results == FilesUnder(disk, resultsPath)
       IN /\ target \in dirs'
          /\ FilesUnder(disk', target) = {target \o <<f[Len(f)]>> : f \in results}
          /\ \A f \in results : disk'[target \o <<f[Len(f)]>>] = disk[f]
          /\ sessionPath \notin dirs']_vars

\* C15 as stated: after cleanup returned the session directory does not exist
C15_TeardownDestroys ==
  lastOp.op \in cleanupOps => sessionPath \notin dirs

\* C16 as stated: once the session directory is removed, no step brings it
\* back and fileHashes stays empty
C16_NoTransitionLeavesDestroyed ==
  [][sessionPath \notin dirs => (sessionPath \notin dirs' /\ fileHashes' = EmptyMap)]_vars

\* C17: cleanup never raises; on a session directory that is absent it
\* completes and changes no file, no directory and no archive; on a partly
\* deleted one it removes what is left when no removal fails; and a cleanup
\* that directly follows a completed cleanup leaves the state as it was
C17_TeardownIdempotent ==
  [][lastOp'.op \in cleanupOps =>
       /\ lastOp'.ok
       /\ (sessionPath \notin dirs =>
             /\ lastOp'.op = "cleanup"
             /\ disk' = disk /\ dirs' = dirs /\ archives' = archives)
       /\ (lastOp'.op = "cleanup" =>
             /\ sessionPath \notin dirs'
             /\ FilesUnder(disk', sessionPath) = {}
             /\ fileHashes' = EmptyMap /\ pathMapping' = EmptyMap)
       /\ (lastOp.op = "cleanup" =>
             /\ disk' = disk /\ dirs' = dirs /\ archives' = archives
             /\ fileHashes' = fileHashes /\ pathMapping' = pathMapping)]_vars

\* a cleanup directly followed a cleanup (one that completed, or one that
\* left the tree partly deleted) and the session directory is gone
C17_Witness ==
  /\ lastOp.op = "cleanup" /\ lastOp.again
  /\ sessionPath \notin dirs
  /\ FilesUnder(disk, archiveDir) # {}

\* C18 as stated: a cleanup(true) whose archive directory could not be
\* created ends with an error for its caller
C18_ArchiveFailurePropagates ==
  (lastOp.op \in cleanupOps /\ lastOp.archive = "mkdirError") => ~lastOp.ok

\* C19 as stated: a run of cleanupOldSessions removes every session directory
\* that was older than 24 hours and no other session directory
C19_OldSessionsCollected ==
  [][lastOp'.op = "Scanner.constructor" =>
       \A s \in sessionRoots(dirs) :
         /\ (s \in aged => s \notin dirs')
         /\ (s \notin aged => s \in dirs')]_vars

\* C20 as stated: the construction of a Scanner in another process leaves
\* every file in the directory tree of this session, which is in use, in
\* place and with its bytes
C20_SessionsDoNotInterfere ==
  [][lastOp'.op = "Scanner.constructor" =>
       \A f \in FilesUnder(disk, sessionPath) : f \in DOMAIN disk' /\ disk'[f] = disk[f]]_vars

\* C21: no two session objects alive at the same time share a category
\* directory: the input_files, collected_jsons, fixed_jsons and results
\* directories of any two distinct objects are different paths.
C21_CategoryDirectoriesDisjoint ==
  \A i, j \in 1..Len(managers) :
    i # j => \A k \in 1..Len(categoryNames) :
               categoryPath(managers[i], categoryNames[k])
                 # categoryPath(managers[j], categoryNames[k])

\* C22: copyToTemp calls into one session are serialized: while one call is
\* between opening its hash stream and registering its copy, no other call
\* of the session is.
C22_StagingCallsSerialized == Cardinality(inflight) <= 1

\* C23: the persistent manager's change detection refines the session
\* manager's: every tracked file that TempFileManager.detectChanges reports
\* as modified or deleted is reported by PersistentTempManager.detectChanges
\* on the same tracked files and the same file system.
C23_PersistentReportsWhatSessionReports ==
  LET r == detectChanges([given |-> FALSE, paths |-> {}], disk, fileHashes, srcMtime)
      pr == persistentDetectChanges
  IN \A p \in changedPaths(r) \cup SeqRange(r.deletedFiles) :
       pr.hasChanges /\ p \in SeqRange(pr.changes)

\* C24: exportResults copies every result file into the destination
\* directory and returns the number of files copied; with no results
\* directory or no result file it fails with an error instead of returning.
C24_ExportReturnsCountOrFails ==
  lastOp.op = "exportResults" =>
    LET resultFiles == getResultFiles(disk, dirs)
    IN IF resultFiles = <<>> THEN ~lastOp.ok
       ELSE lastOp.ok =>
              /\ lastOp.returned = jsNumber(lastOp.copied)
              /\ \A i \in 1..Len(resultFiles) :
                   /\ (exportDir \o <<resultFiles[i]>>) \in DOMAIN disk
                   /\ disk[exportDir \o <<resultFiles[i]>>]
                        = disk[resultsPath \o <<resultFiles[i]>>]

\* C30: the --export-results command copies the result files of the most
\* recent session to the given directory whenever a session that a
\* TempFileManager created holds at least one result file on disk.
C30_ExportCommandCopiesLatestResults ==
  lastOp.op = "--export-results" =>
    LET sessions == sessionsIn(dirs)
        latest == sessions[Len(sessions)]
        files == resultFilesIn(disk, latest \o <<"results">>)
    IN (sessions # <<>> /\ files # <<>>) =>
         \A i \in 1..Len(files) :
           /\ (exportDir \o <<files[i]>>) \in DOMAIN disk
           /\ disk[exportDir \o <<files[i]>>] = disk[latest \o <<"results", files[i]>>]

\* the pieces of a staged name in its hashed form
translated == translation.name # ""
overflowName(absolutePath, digits) ==
  Concat(SubSeq(md5hex(absolutePath), 1, digits)) \o "_"
    \o Concat(basename(dirname(absolutePath))) \o "_" \o Concat(basename(absolutePath))

C26_OverflowNameBounded ==
  (translated /\ Len(safePathOf(translation.path)) > 180) => Len(translation.name) <= 120

C28_ScanWritesNothingInSource ==
  [][lastOp'.op = "performScan" =>
       /\ srcDirs' = srcDirs
       /\ \A p \in SrcPaths :
            /\ (p \in DOMAIN disk') = (p \in DOMAIN disk)
            /\ p \in DOMAIN disk => disk'[p] = disk[p]]_vars

\* C29: on a scan of a path scanned before, only the files whose content
\* changed (and the files that are new) are copied to temp; an unchanged
\* file keeps its temp copy, which is not written again.
C29_RescanCopiesOnlyChanged ==
  [][(lastOp'.op = "performScan" /\ lastOp'.again) =>
       LET report == detectChanges([given |-> FALSE, paths |-> {}], disk, fileHashes,
                                   srcMtime)
       IN lastOp'.copied <= Len(report.changedFiles) + Len(report.newFiles)]_vars

\* C31: when the process receives SIGINT or SIGTERM while a session is
\* active, the temp directory of the session is cleaned up before the
\* process exits.
C31_SignalCleansSession ==
  lastOp.op = "process.exit" => sessionPath \notin dirs /\ FilesUnder(disk, sessionPath) = {}

\* C32: after every successful copyFileToTemp the hash recorded in
\* fileHashes for the source is the hash of the bytes written to the staged
\* copy, whenever the owner writes to the source while the call is in
\* progress.
C32_RecordedHashIsHashOfCopy ==
  [][(lastOp'.op = "copyToTemp" /\ lastOp'.ok) =>
       \A c \in inflight :
         fileHashes'[c.path].hash = calculateFileHash(disk'[c.tempPath])]_vars

\* C33: cleanup(preserveResults = true) deletes no result file that has not
\* been copied into the archive: when archiving fails or stops part-way the
\* result files that are not archived stay.
C33_UnarchivedResultsKept ==
  [][(lastOp'.op \in cleanupOps /\ lastOp'.archive # "") =>
       \A f \in FilesUnder(disk, resultsPath) :
         f \notin DOMAIN disk' =>
           \E g \in FilesUnder(disk', archiveDir) :
             g[Len(g)] = f[Len(f)] /\ disk'[g] = disk[f]]_vars

\* C34: the reverse mapping is exact: for every tracked source path p,
\* getOriginalPath(getTempPath(p)) = p, so two distinct sources staged into
\* one category never share a staged path
C34_ReverseMappingExact ==
  \A p \in DOMAIN fileHashes : getOriginalPath(getTempPath(p)) = p

\* C35: a source file keeps one staged path for the life of the session: no
\* staging operation changes getTempPath(p) of a file that is tracked
C35_StagedPathStable ==
  [][\A p \in DOMAIN fileHashes : getTempPath(p)' = getTempPath(p)]_vars

\* C36: change detection converges: when updateChangedFiles has applied
\* the report detectChanges() has just returned, with no change to a source
\* in between, the next detectChanges() reports no changes
C36_DetectionConverges ==
  [][(/\ lastOp.op = "detectChanges" /\ lastOp.ok
      /\ lastOp'.op = "updateChangedFiles" /\ lastOp'.ok)
       => ~detectChanges([given |-> FALSE, paths |-> {}], disk', fileHashes',
                         srcMtime').hasChanges]_vars

\* C37: cleanupOldSessions creates no directory: the session directories on
\* disk after the call are among those that existed before it, which are
\* the ones before the Scanner was constructed and the one of its own manager
C37_CollectionCreatesNoDirectory ==
  [][lastOp'.op = "Scanner.constructor" =>
       sessionRoots(dirs') \subseteq
         sessionRoots(dirs) \cup {<<newSessionId(sessionsMade + 1)>>}]_vars

\* C38: getAllProjects, getProject and getAnalysis are pure reads: a call
\* creates, modifies and deletes nothing on disk, no session directory either
C38_QueriesArePureReads ==
  [][lastOp'.op \in {"getAllProjects", "getProject", "getAnalysis"} =>
       disk' = disk /\ dirs' = dirs]_vars

\* C39: after copyJsonProject returns successfully, every essential file of
\* the project's source directory has a staged copy whose content equals
\* the current content of the source
C39_ProjectCopyCurrent ==
  [][(lastOp'.op = "copyJsonProject" /\ lastOp'.ok) =>
       \A i \in 1..Len(findEssentialFiles(disk', srcDir)) :
         LET file == findEssentialFiles(disk', srcDir)[i]
             staged == projectTempPath(srcDir, file)
         IN staged \in DOMAIN disk' /\ disk'[staged] = disk'[file]]_vars

\* C40: the totalFiles reported by getCleanupStats equals the number of
\* files that an immediately following cleanupGeneratedFiles deletes, when
\* no deletion fails
C40_StatsCountWhatCleanupDeletes ==
  [][(/\ lastOp.op = "getCleanupStats"
      /\ lastOp'.op = "cleanupGeneratedFiles"
      /\ lastOp'.errorCount = 0)
       => /\ lastOp.returned.totalFiles = Cardinality((DOMAIN disk) \ (DOMAIN disk'))
          /\ lastOp.returned.totalFiles = lastOp'.deletedCount]_vars

====
